---- MODULE Spec2Model ----
(***************************************************************************)
(* Model of merge_docs.py: main() sorts the files of an input directory by *)
(* file name into a bucket of degrees, merges the mission and the skills   *)
(* document of each degree into a description document, and moves the     *)
(* other files to the courses, incomplete, error and unknown directories.  *)
(*                                                                         *)
(* File names and texts are sequences of one-character strings, so that    *)
(* the regular expression, the glob pattern, str.lower and str.join are    *)
(* computed character by character.  The output root is assumed to lie     *)
(* outside the input directory and the output directories to start empty.  *)
(***************************************************************************)
EXTENDS Integers, Sequences, FiniteSets, TLC

(***************************************************************************)
(* Bounds                                                                  *)
(***************************************************************************)
\* largest number of files in the input directory
MaxFiles == 3

(***************************************************************************)
(* Characters and words                                                    *)
(***************************************************************************)
Digits == {"0", "1", "2", "3", "4", "5", "6", "7", "8", "9"}

UpperCase == <<"A","B","C","D","E","F","G","H","I","J","K","L","M",
               "N","O","P","Q","R","S","T","U","V","W","X","Y","Z">>

LowerCase == <<"a","b","c","d","e","f","g","h","i","j","k","l","m",
               "n","o","p","q","r","s","t","u","v","w","x","y","z">>

\* str.lower on one character
LowerChar(c) ==
    IF \E i \in 1..Len(UpperCase) : UpperCase[i] = c
    THEN LowerCase[CHOOSE i \in 1..Len(UpperCase) : UpperCase[i] = c]
    ELSE c

\* str.lower
Lower(s) == [i \in 1..Len(s) |-> LowerChar(s[i])]

W_skills == <<"s","k","i","l","l","s">>
W_courses == <<"c","o","u","r","s","e","s">>
W_mission == <<"m","i","s","s","i","o","n">>
docx == <<"d","o","c","x">>

\* the alternatives of the group 'category', in the order of the pattern
PatternCategories == <<W_skills, W_courses, W_mission>>

\* the value of dict.get for a missing key
None == <<>>

(***************************************************************************)
(* The pattern  (?P<id>\d{3})-(?P<category>skills|courses|mission).docx    *)
(* used with re.search and re.IGNORECASE                                   *)
(***************************************************************************)
\* the literal word w matches name at position i, ignoring case
LiteralAt(name, i, w) ==
    /\ i + Len(w) - 1 <= Len(name)
    /\ \A k \in 1..Len(w) : LowerChar(name[i + k - 1]) = LowerChar(w[k])

\* the pattern matches name with the match starting at position i and the
\* category group taking the alternative w
MatchAtAs(name, i, w) ==
    /\ i + 3 <= Len(name)
    /\ \A k \in i..(i + 2) : name[k] \in Digits
    /\ name[i + 3] = "-"
    /\ LiteralAt(name, i + 4, w)
    /\ i + 4 + Len(w) <= Len(name)
    /\ name[i + 4 + Len(w)] # "\n"
    /\ LiteralAt(name, i + 5 + Len(w), docx)

MatchAt(name, i) ==
    \E a \in 1..Len(PatternCategories) : MatchAtAs(name, i, PatternCategories[a])

\* the groups id and category of the match starting at position i
Groups(name, i) ==
    LET a == CHOOSE b \in 1..Len(PatternCategories) :
                 /\ MatchAtAs(name, i, PatternCategories[b])
                 /\ \A h \in 1..(b - 1) : ~MatchAtAs(name, i, PatternCategories[h])
    IN  [id |-> SubSeq(name, i, i + 2),
         category |-> SubSeq(name, i + 4, i + 3 + Len(PatternCategories[a]))]

RECURSIVE SearchFrom(_, _)
SearchFrom(name, i) ==
    IF i > Len(name) THEN None
    ELSE IF MatchAt(name, i) THEN Groups(name, i)
    ELSE SearchFrom(name, i + 1)

\* re.search: the leftmost match, as the groups id and category; None if
\* the pattern matches nowhere
Search(name) == SearchFrom(name, 1)

\* INPUT.glob('*.docx') on a case-sensitive file system: the name ends in .docx
Glob(name) ==
    /\ Len(name) >= 5
    /\ SubSeq(name, Len(name) - 4, Len(name)) = <<".">> \o docx

(***************************************************************************)
(* Documents                                                               *)
(***************************************************************************)
\* a file that docx.Document(path) cannot open: the call raises
Unreadable == [readable |-> FALSE, paragraphs |-> <<>>]

\* a file that docx.Document(path) opens, with the texts of its paragraphs
Document(ps) == [readable |-> TRUE, paragraphs |-> ps]

\* '\n'.join(paragraphs)
RECURSIVE Join(_)
Join(ps) ==
    IF Len(ps) = 0 THEN <<>>
    ELSE IF Len(ps) = 1 THEN ps[1]
    ELSE ps[1] \o <<"\n">> \o Join(Tail(ps))

SwappedDescription(m_txt, s_txt) == <<s_txt, m_txt>>

\* the paragraphs of the description document
Description(m_txt, s_txt) == <<m_txt, s_txt>>

\* the file name of the description of a degree
DescriptionName(degree) ==
    degree \o <<"-","d","e","s","c","r","i","p","t","i","o","n",".">> \o docx

(***************************************************************************)
(* The files the input directory is drawn from                             *)
(***************************************************************************)
Name(id, word, ext) == id \o <<"-">> \o word \o <<".">> \o ext

Catalogue ==
    { Name(<<"0","0","1">>, W_mission, docx),
      Name(<<"0","0","1">>, W_skills, docx),
      Name(<<"0","0","1">>, W_courses, docx),
      Name(<<"0","0","2">>, W_courses, docx),
      \* the same degree and category as the first, in another case
      Name(<<"0","0","1">>, <<"M","I","S","S","I","O","N">>, docx),
      \* a character before the three digits
      Name(<<"1","0","0","2">>, W_skills, docx),
      \* two digits only
      Name(<<"0","1">>, W_mission, docx),
      \* no document
      <<"r","e","a","d","m","e",".","t","x","t">> }

\* the filename contract [ID]-[Category].docx of the module docstring: three
\* digits, a dash, one of the three categories in any case, the extension
Contract(name) ==
    \E id \in [1..3 -> Digits], a \in 1..Len(PatternCategories) :
        /\ Len(name) = 9 + Len(PatternCategories[a])
        /\ SubSeq(name, 1, 3) = id
        /\ name[4] = "-"
        /\ Lower(SubSeq(name, 5, 4 + Len(PatternCategories[a]))) = PatternCategories[a]
        /\ SubSeq(name, Len(name) - 4, Len(name)) = <<".">> \o docx

\* what a file can hold: no readable document, or the paragraphs of one
Contents ==
    { Unreadable,
      Document(<< <<>> >>),
      Document(<< <<"a">> >>),
      Document(<< <<>>, <<"b">> >>) }

\* the files main() can open are those it sorts as mission or skills
Openable(name) ==
    /\ Glob(name)
    /\ Search(name) # None
    /\ Lower(Search(name).category) \in {W_mission, W_skills}

\* the content of the other files has no part in a run
Opened == {f \in Catalogue : Openable(f)}

(***************************************************************************)
(* State                                                                   *)
(***************************************************************************)
INPUT == "input"
COURSES == "courses"
INCOMPLETE == "incomplete"
ERROR == "error"
UNKNOWN == "unknown"
\* the directories files are moved between
Directories == {INPUT, COURSES, INCOMPLETE, ERROR, UNKNOWN}

VARIABLES
    pc,            \* position of main: classify, process, sweep, done, aborted
    fs,            \* the file names in each directory
    content,       \* what each input file holds
    DESCRIPTIONS,  \* the descriptions directory: file name -> paragraphs
    documents,     \* degree id -> (category -> path)
    order,         \* the degree ids in the insertion order of documents
    scanned,       \* the files INPUT.glob has yielded so far, in order
    idx,           \* the position of the loop over documents.items()
    known,         \* the set known
    listing,       \* what is left of the INPUT.iterdir() listing
    input0,        \* the input directory as the run found it
    renames        \* how many times each file was renamed

vars == <<pc, fs, content, DESCRIPTIONS, documents, order, scanned, idx,
          known, listing, input0, renames>>

Range(f) == {f[x] : x \in DOMAIN f}

\* docs.get(key)
Get(docs, key) == IF key \in DOMAIN docs THEN docs[key] ELSE None

Init ==
    /\ pc = "classify"
    /\ input0 \in {S \in SUBSET Catalogue : Cardinality(S) <= MaxFiles}
    /\ content \in [input0 -> Contents]
    /\ \A f \in input0 \ Opened : content[f] = Unreadable
    /\ fs = [d \in Directories |-> IF d = INPUT THEN input0 ELSE {}]
    /\ DESCRIPTIONS = <<>>
    /\ documents = <<>>
    /\ order = <<>>
    /\ scanned = <<>>
    /\ idx = 1
    /\ known = {}
    /\ listing = {}
    /\ renames = [f \in input0 |-> 0]

(***************************************************************************)
(* Classifier: lines 61-71                                                 *)
(***************************************************************************)
KeepFirst(docs, category, f) ==
    IF category \in DOMAIN docs THEN docs ELSE (category :> f) @@ docs

\* docs[category] = f
Put(docs, category, f) == (category :> f) @@ docs

\* one iteration of the loop over INPUT.glob('*.docx')
Classify(f) ==
    /\ pc = "classify"
    /\ f \in fs[INPUT]
    /\ Glob(f)
    /\ f \notin Range(scanned)
    /\ scanned' = Append(scanned, f)
    /\ LET m == Search(f) IN
         IF m # None
         THEN LET docs == IF m.id \in DOMAIN documents THEN documents[m.id] ELSE <<>> IN
              /\ documents' = (m.id :> Put(docs, Lower(m.category), f)) @@ documents
              /\ order' = IF m.id \in DOMAIN documents THEN order ELSE Append(order, m.id)
         ELSE UNCHANGED <<documents, order>>
    /\ UNCHANGED <<pc, fs, content, DESCRIPTIONS, idx, known, listing, input0, renames>>

\* the glob is exhausted
EndClassify ==
    /\ pc = "classify"
    /\ \A f \in fs[INPUT] : Glob(f) => f \in Range(scanned)
    /\ pc' = "process"
    /\ UNCHANGED <<fs, content, DESCRIPTIONS, documents, order, scanned, idx,
                   known, listing, input0, renames>>

(***************************************************************************)
(* Pairer/merger: lines 73-116                                             *)
(***************************************************************************)
Copy(dirs, f, target) == [dirs EXCEPT ![target] = @ \cup {f}]

\* f.rename(target / f.name), f being a path of the input directory
Rename(dirs, f, target) ==
    [dirs EXCEPT ![INPUT] = @ \ {f}, ![target] = @ \cup {f}]

RECURSIVE RenameAll(_, _, _)
RenameAll(dirs, F, target) ==
    IF F = {} THEN dirs
    ELSE LET f == CHOOSE g \in F : TRUE
         IN  RenameAll(Rename(dirs, f, target), F \ {f}, target)

BothToError(mission, skills, m_txt, s_txt) == {mission, skills}

\* lines 100-107: the files of a pair that go to the error directory
ErrorMoves(mission, skills, m_txt, s_txt) ==
    (IF m_txt = <<>> THEN {mission} ELSE {}) \cup
    (IF s_txt = <<>> THEN {skills} ELSE {})

MissionOnly(mission, skills) ==
    IF mission # None THEN {mission} ELSE {}

\* lines 109-116: the files of an incomplete set that go to incomplete
IncompleteMoves(mission, skills) ==
    IF mission # None THEN {mission}
    ELSE IF skills # None THEN {skills}
    ELSE {}

Counted(F) == [f \in input0 |-> IF f \in F THEN renames[f] + 1 ELSE renames[f]]

\* one iteration of the loop over documents.items()
ProcessDegree ==
    /\ pc = "process"
    /\ idx <= Len(order)
    /\ LET degree == order[idx]
           docs == documents[degree]
           skills == Get(docs, W_skills)
           mission == Get(docs, W_mission)
           courses == Get(docs, W_courses)
           C == IF courses # None THEN {courses} ELSE {}
           fs1 == RenameAll(fs, C, COURSES)
       IN
       IF mission # None /\ skills # None
       THEN IF ~content[mission].readable \/ ~content[skills].readable
            THEN \* docx.Document raises and nothing catches it
                 /\ pc' = "aborted"
                 /\ fs' = fs1
                 /\ renames' = Counted(C)
                 /\ UNCHANGED <<DESCRIPTIONS, idx>>
            ELSE LET m_txt == Join(content[mission].paragraphs)
                     s_txt == Join(content[skills].paragraphs)
                 IN
                 IF m_txt # <<>> /\ s_txt # <<>>
                 THEN /\ DESCRIPTIONS' =
                            (DescriptionName(degree) :> Description(m_txt, s_txt))
                                @@ DESCRIPTIONS
                      /\ fs' = fs1
                      /\ renames' = Counted(C)
                      /\ idx' = idx + 1
                      /\ UNCHANGED pc
                 ELSE LET E == ErrorMoves(mission, skills, m_txt, s_txt) IN
                      /\ fs' = RenameAll(fs1, E, ERROR)
                      /\ renames' = Counted(C \cup E)
                      /\ idx' = idx + 1
                      /\ UNCHANGED <<pc, DESCRIPTIONS>>
       ELSE LET I == IncompleteMoves(mission, skills) IN
            /\ fs' = RenameAll(fs1, I, INCOMPLETE)
            /\ renames' = Counted(C \cup I)
            /\ idx' = idx + 1
            /\ UNCHANGED <<pc, DESCRIPTIONS>>
    /\ UNCHANGED <<content, documents, order, scanned, known, listing, input0>>

(***************************************************************************)
(* Sweeper: lines 118-126                                                  *)
(***************************************************************************)
\* lines 119-121: every path of the bucket
Known(docs) == UNION {Range(docs[d]) : d \in DOMAIN docs}

\* the loop over documents is exhausted: known is built and INPUT.iterdir()
\* lists the input directory as it is now
StartSweep ==
    /\ pc = "process"
    /\ idx > Len(order)
    /\ known' = Known(documents)
    /\ listing' = fs[INPUT]
    /\ pc' = "sweep"
    /\ UNCHANGED <<fs, content, DESCRIPTIONS, documents, order, scanned, idx,
                   input0, renames>>

\* one iteration of the loop over INPUT.iterdir()
Sweep(doc) ==
    /\ pc = "sweep"
    /\ doc \in listing
    /\ listing' = listing \ {doc}
    /\ IF doc \notin known
       THEN /\ fs' = Rename(fs, doc, UNKNOWN)
            /\ renames' = Counted({doc})
       ELSE UNCHANGED <<fs, renames>>
    /\ UNCHANGED <<pc, content, DESCRIPTIONS, documents, order, scanned, idx,
                   known, input0>>

\* the listing is exhausted and main returns
Finish ==
    /\ pc = "sweep"
    /\ listing = {}
    /\ pc' = "done"
    /\ UNCHANGED <<fs, content, DESCRIPTIONS, documents, order, scanned, idx,
                   known, listing, input0, renames>>

Next ==
    \/ \E f \in input0 : Classify(f)
    \/ EndClassify
    \/ ProcessDegree
    \/ StartSweep
    \/ \E doc \in input0 : Sweep(doc)
    \/ Finish

Spec == Init /\ [][Next]_vars

(***************************************************************************)
(* Vocabulary of the properties                                            *)
(***************************************************************************)
\* the entries of the bucket of a degree
MissionOf(d) == Get(documents[d], W_mission)
SkillsOf(d) == Get(documents[d], W_skills)
CoursesOf(d) == Get(documents[d], W_courses)

\* the text main() extracts from a readable file
TextOf(f) == Join(content[f].paragraphs)

\* the degree holds a mission and a skills document
Paired(d) == MissionOf(d) # None /\ SkillsOf(d) # None

\* the degree holds exactly one of mission and skills
Lone(d) == (MissionOf(d) # None) # (SkillsOf(d) # None)

LoneFile(d) == IF MissionOf(d) # None THEN MissionOf(d) ELSE SkillsOf(d)

\* both documents of the pair open
Readable(d) == content[MissionOf(d)].readable /\ content[SkillsOf(d)].readable

\* the iteration of the loop over documents.items() for d has completed
Processed(d) == \E i \in 1..(idx - 1) : order[i] = d

\* main() has returned or has been ended by an exception
Terminated == pc \in {"done", "aborted"}

\* the description files written for a degree
DescriptionsOf(d) ==
    {n \in DOMAIN DESCRIPTIONS :
        /\ Len(n) > Len(d)
        /\ SubSeq(n, 1, Len(d)) = d
        /\ n[Len(d) + 1] = "-"}

\* the directories holding a file
Where(f) == {d \in Directories : f \in fs[d]}

\* the pair (id, category) that main() files each name under, None for a
\* name the pattern does not match
KeyOf ==
    [f \in Catalogue |->
        IF Search(f) = None THEN None
        ELSE <<Search(f).id, Lower(Search(f).category)>>]

\* the category a file name states
CategoryOf(f) == KeyOf[f][2]

\* the scanned files that matched the pair (d, c), in scan order
Matching(d, c) == SelectSeq(scanned, LAMBDA f : KeyOf[f] = <<d, c>>)

\* the scanned files that a later file of the same pair replaced
Superseded ==
    {f \in Range(scanned) :
        /\ KeyOf[f] # None
        /\ \E i, j \in 1..Len(scanned) :
              i < j /\ scanned[i] = f /\ KeyOf[scanned[j]] = KeyOf[f]}

(***************************************************************************)
(* Properties                                                              *)
(***************************************************************************)
\* C1: when main() has returned, every degree whose bucket holds a mission
\* and a skills document with non-empty texts has exactly one description
\* document, named {id}-description.docx, whose paragraphs are the mission
\* text then the skills text, and neither source file is in the error or
\* the incomplete directory.
C1_DescriptionWritten ==
    pc = "done" =>
        \A d \in DOMAIN documents :
            (Paired(d) /\ Readable(d)
                /\ TextOf(MissionOf(d)) # <<>> /\ TextOf(SkillsOf(d)) # <<>>)
            => /\ DescriptionsOf(d) = {DescriptionName(d)}
               /\ DESCRIPTIONS[DescriptionName(d)]
                      = <<TextOf(MissionOf(d)), TextOf(SkillsOf(d))>>
               /\ {MissionOf(d), SkillsOf(d)} \cap (fs[ERROR] \cup fs[INCOMPLETE]) = {}

C1_Witness ==
    /\ pc = "done"
    /\ \E d \in DOMAIN documents :
        /\ Paired(d) /\ Readable(d)
        /\ TextOf(MissionOf(d)) # <<>> /\ TextOf(SkillsOf(d)) # <<>>
        /\ TextOf(MissionOf(d)) # TextOf(SkillsOf(d))
        /\ DescriptionName(d) \in DOMAIN DESCRIPTIONS

\* C2: once a degree whose bucket holds a mission and a skills document, at
\* least one of them with an empty text, has been processed, it has no
\* description document, each of the two files with an empty text is in the
\* error directory, and a counterpart with a non-empty text is still in the
\* input directory and nowhere else, up to and after the sweeper.
C2_EmptyTextToError ==
    \A d \in DOMAIN documents :
        (Processed(d) /\ Paired(d) /\ Readable(d)
            /\ (TextOf(MissionOf(d)) = <<>> \/ TextOf(SkillsOf(d)) = <<>>))
        => /\ DescriptionsOf(d) = {}
           /\ \A f \in {MissionOf(d), SkillsOf(d)} :
                 IF TextOf(f) = <<>>
                 THEN Where(f) = {ERROR}
                 ELSE Where(f) = {INPUT}

C2_Witness ==
    /\ pc = "done"
    /\ \E d \in DOMAIN documents :
        /\ Paired(d) /\ Readable(d)
        /\ TextOf(MissionOf(d)) = <<>>
        /\ TextOf(SkillsOf(d)) # <<>>
        /\ MissionOf(d) \in fs[ERROR]
        /\ SkillsOf(d) \in fs[INPUT]

\* C3: once a degree whose bucket holds exactly one of mission and skills
\* has been processed, that file is in the incomplete directory and the
\* degree has no description document, with or without a courses document.
C3_LoneToIncomplete ==
    \A d \in DOMAIN documents :
        (Processed(d) /\ Lone(d))
        => /\ Where(LoneFile(d)) = {INCOMPLETE}
           /\ DescriptionsOf(d) = {}

C3_Witness ==
    /\ pc = "done"
    /\ \E d \in DOMAIN documents :
        /\ Lone(d) /\ SkillsOf(d) # None /\ CoursesOf(d) # None
        /\ SkillsOf(d) \in fs[INCOMPLETE]
    /\ \E d \in DOMAIN documents :
        /\ Lone(d) /\ MissionOf(d) # None /\ CoursesOf(d) = None
        /\ MissionOf(d) \in fs[INCOMPLETE]

\* C4: after the run every input file named {ddd}-courses.docx is in the
\* courses directory, whatever else its degree holds and whatever happens
\* to the other degrees.
C4_CoursesAlwaysMoved ==
    Terminated =>
        \A f \in input0 :
            (Contract(f) /\ CategoryOf(f) = W_courses) => f \in fs[COURSES]

\* C5: an input file whose name is not of the form {ddd}-{category}.docx is
\* never in the courses, incomplete or error directory, is the source of no
\* description, and is in the unknown directory when main() has returned.
C5_UnmatchedToUnknown ==
    \A f \in input0 :
        ~Contract(f) =>
            /\ f \notin fs[COURSES] \cup fs[INCOMPLETE] \cup fs[ERROR]
            /\ \A d \in DOMAIN documents :
                  DescriptionsOf(d) # {} => f \notin {MissionOf(d), SkillsOf(d)}
            /\ pc = "done" => f \in fs[UNKNOWN]

\* C6: when main() has returned no file of the initial listing is left in
\* the input directory, and a degree with a description document has
\* neither of its two source files in the input directory.
C6_InputEmptied ==
    /\ pc = "done" => fs[INPUT] \cap input0 = {}
    /\ \A d \in DOMAIN documents :
          (Processed(d) /\ DescriptionsOf(d) # {})
          => {MissionOf(d), SkillsOf(d)} \cap fs[INPUT] = {}

\* what the loop body leaves behind for a degree whose documents open
Handled(d) ==
    /\ CoursesOf(d) # None => CoursesOf(d) \in fs[COURSES]
    /\ Lone(d) => LoneFile(d) \in fs[INCOMPLETE]
    /\ Paired(d) =>
          IF TextOf(MissionOf(d)) # <<>> /\ TextOf(SkillsOf(d)) # <<>>
          THEN DescriptionName(d) \in DOMAIN DESCRIPTIONS
          ELSE \A f \in {MissionOf(d), SkillsOf(d)} :
                  TextOf(f) = <<>> => f \in fs[ERROR]

\* C7: a document that cannot be read ends the processing of its own degree
\* only: when the run is over every other degree has been handled and every
\* file that matched no pair of the bucket is in the unknown directory.
C7_ReadErrorIsolated ==
    Terminated =>
        /\ \A d \in DOMAIN documents :
              ~(Paired(d) /\ ~Readable(d)) => Handled(d)
        /\ \A f \in input0 :
              f \notin Known(documents) => f \in fs[UNKNOWN]

\* C8: when main() has returned every mission or skills document of the
\* bucket whose text is empty is in the error directory, with or without a
\* counterpart.
C8_EmptyAlwaysError ==
    pc = "done" =>
        \A d \in DOMAIN documents :
            \A f \in {MissionOf(d), SkillsOf(d)} \ {None} :
                (content[f].readable /\ TextOf(f) = <<>>) => f \in fs[ERROR]

\* C9: the bucket holds for each (id, category) the last scanned file whose
\* name matched that pair and no entry for a pair no scanned file matched;
\* a file that a later one replaced is not in known, is never in the
\* courses, incomplete or error directory, and is in the unknown directory
\* when main() has returned.
C9_LastMatchWins ==
    /\ \A f \in Range(scanned) :
          KeyOf[f] # None =>
              /\ KeyOf[f][1] \in DOMAIN documents
              /\ KeyOf[f][2] \in DOMAIN documents[KeyOf[f][1]]
    /\ \A d \in DOMAIN documents :
          \A c \in DOMAIN documents[d] :
              /\ Matching(d, c) # <<>>
              /\ documents[d][c] = Matching(d, c)[Len(Matching(d, c))]
    /\ \A f \in Superseded :
          /\ f \notin Known(documents)
          /\ pc \in {"sweep", "done"} => f \notin known
          /\ f \notin fs[COURSES] \cup fs[INCOMPLETE] \cup fs[ERROR]
          /\ pc = "done" => f \in fs[UNKNOWN]

C9_Witness ==
    /\ pc = "done"
    /\ \E f \in Superseded : Contract(f) /\ f \in fs[UNKNOWN]

\* the files main() leaves in the input directory
LeftInInput ==
    {f \in input0 :
        \E d \in DOMAIN documents :
            /\ Paired(d)
            /\ f \in {MissionOf(d), SkillsOf(d)}
            /\ TextOf(f) # <<>>}

\* C10: in every state each file of the initial listing is in exactly one
\* of the input, courses, incomplete, error and unknown directories, these
\* hold nothing else, no file has been renamed more than once, and a file
\* that was renamed is not in the input directory; when main() has returned
\* the input directory holds exactly the mission and skills documents with
\* a non-empty text of the degrees that had both.
C10_Conservation ==
    /\ \A d \in Directories : fs[d] \subseteq input0
    /\ \A f \in input0 :
          /\ Cardinality(Where(f)) = 1
          /\ renames[f] <= 1
          /\ (renames[f] = 0) <=> (f \in fs[INPUT])
    /\ pc = "done" => fs[INPUT] = LeftInInput

C10_Witness ==
    /\ pc = "done"
    /\ fs[INPUT] # {}
    /\ fs[ERROR] # {}
    /\ fs[UNKNOWN] # {}

====
